---- MODULE Spec2Model ----
(***************************************************************************)
(* Entity resolution cache of crm_mcp (src/crm_mcp/opp.py, EntityCache).   *)
(*                                                                         *)
(* Python values are modelled as tagged records: PyNone is None and        *)
(* PyStr(s) is the str s.  Strings are TLA+ strings, so slicing, prefix    *)
(* tests and concatenation are computed on the characters.  Time is        *)
(* counted in hours; a stored timestamp is the ISO rendering of that       *)
(* time, here a (day, hour) pair that has to be parsed back.               *)
(***************************************************************************)
EXTENDS Integers, Sequences, FiniteSets, TLC

VARIABLES
    now,         \* datetime.now(), in hours
    ticks,       \* number of clock advances so far (bounded)
    calls,       \* number of cache operations so far (bounded)
    file,        \* content of CACHE_FILE
    cache_data,  \* cache_data[i]: the table of cache instance i
    last,        \* the most recent operation: its call, result, requests, the
                 \* outcome of its saves, and the table and file it started from
    negative,    \* negative[i][key]: the last failed fetch cached under key
    saveFailed   \* saveFailed[i]: some _save_cache of instance i failed

vars == <<now, ticks, calls, file, cache_data, last, negative, saveFailed>>

----------------------------------------------------------------------------
(* Bounds of the model *)

MaxTicks == 2
MaxCalls == 2

\* The clock first advances to one hour before the window closes, then hour
\* by hour.
TickSteps == [k \in Nat |-> IF k = 1 THEN 175 ELSE 1]

----------------------------------------------------------------------------
(* Program constants *)

CACHE_EXPIRY_HOURS == 176

SliceLen == 8

HTTP_OK == 200

HTTP_NOT_FOUND == 404

----------------------------------------------------------------------------
(* Python values *)

PyNone == [py |-> "None"]

PyStr(s) == [py |-> "str", s |-> s]

\* bool(v): None and "" are falsy.
Truthy(v) == v.py = "str" /\ v.s /= ""

\* s[:n]
Slice(s, n) == SubSeq(s, 1, IF Len(s) < n THEN Len(s) ELSE n)

\* s.startswith(p)
StartsWith(s, p) == Len(s) >= Len(p) /\ SubSeq(s, 1, Len(p)) = p

\* s.startswith((p1, p2, ...))
StartsWithAny(s, ps) == \E p \in ps : StartsWith(s, p)

\* sub in s
Contains(s, sub) ==
    \E k \in 1..(Len(s) - Len(sub) + 1) : SubSeq(s, k, k + Len(sub) - 1) = sub

EmptyDict == [k \in {} |-> PyNone]

DictSet(d, k, v) == [x \in DOMAIN d \cup {k} |-> IF x = k THEN v ELSE d[x]]

DictDel(d, k) == [x \in DOMAIN d \ {k} |-> d[x]]

\* d.get(k, default)
DictGet(d, k, default) == IF k \in DOMAIN d THEN d[k] ELSE default

----------------------------------------------------------------------------
(* Timestamps: datetime.isoformat() and datetime.fromisoformat() *)

isoformat(t) == [day |-> t \div 24, hour |-> t % 24]

IsIsoString(s) ==
    /\ DOMAIN s = {"day", "hour"}
    /\ s.day \in Nat
    /\ s.hour \in 0..23

fromisoformat(s) == s.day * 24 + s.hour

----------------------------------------------------------------------------
(* The persisted document: json.dump / json.load of the table *)

Missing == [kind |-> "missing"]

\* A file that exists and does not parse (for instance a truncated write).
Corrupt == [kind |-> "corrupt"]

JsonOfValue(v) == IF v = PyNone THEN [json |-> "null"] ELSE [json |-> "string", s |-> v.s]

ValueOfJson(j) == IF j.json = "null" THEN PyNone ELSE PyStr(j.s)

json_dump(table) ==
    [kind |-> "json",
     members |-> {<<k, JsonOfValue(table[k].name), table[k].timestamp>> : k \in DOMAIN table}]

json_load(doc) ==
    [k \in {m[1] : m \in doc.members} |->
        LET m == CHOOSE m \in doc.members : m[1] = k
        IN  [name |-> ValueOfJson(m[2]), timestamp |-> m[3]]]

_load_cache(f) ==
    IF f.kind = "json" THEN json_load(f) ELSE EmptyDict

\* What a write of the table leaves in the file: on an unwritable store
\* open() fails and the file is untouched; on a full store open() has
\* truncated the file when the dump fails.
WriteFile(table, f, d) ==
    CASE d = "ok" -> json_dump(table)
      [] d = "readonly" -> f
      [] OTHER -> Corrupt

\* Nothing is written.
_save_cache_skipped(self) == self

\* A save that fails empties the table.
_save_cache_clearing(self) ==
    IF self.disk = "ok"
    THEN [self EXCEPT !.file = WriteFile(self.cache_data, self.file, self.disk),
                      !.saves = Append(@, TRUE)]
    ELSE [self EXCEPT !.file = WriteFile(self.cache_data, self.file, self.disk),
                      !.cache_data = EmptyDict,
                      !.saveFailed = TRUE,
                      !.saves = Append(@, FALSE)]

\* The entries of the file that the table lacks are written back with it.
_save_cache_merging(self) ==
    LET on_disk == _load_cache(self.file)
        merged == [k \in DOMAIN on_disk \cup DOMAIN self.cache_data |->
                      IF k \in DOMAIN self.cache_data THEN self.cache_data[k] ELSE on_disk[k]]
    IN  [self EXCEPT !.file = WriteFile(merged, self.file, self.disk),
                     !.saveFailed = @ \/ self.disk /= "ok",
                     !.saves = Append(@, self.disk = "ok")]

\* self is the cache object together with what it can reach: its table, the
\* file, the storage condition, the clock, and the remote requests it has
\* issued and the saves it has made (TRUE: written) in the current operation.
_save_cache(self) ==
    [self EXCEPT !.file = WriteFile(self.cache_data, self.file, self.disk),
                 !.saveFailed = @ \/ self.disk /= "ok",
                 !.saves = Append(@, self.disk = "ok")]

\* The comparison turned around.
_is_cache_entry_valid_reversed(cache_entry, t) ==
    IF cache_entry = EmptyDict \/ "timestamp" \notin DOMAIN cache_entry
    THEN FALSE
    ELSE IF ~IsIsoString(cache_entry.timestamp)
         THEN FALSE
         ELSE fromisoformat(cache_entry.timestamp) < t - CACHE_EXPIRY_HOURS

\* The comparison made inclusive.
_is_cache_entry_valid_inclusive(cache_entry, t) ==
    IF cache_entry = EmptyDict \/ "timestamp" \notin DOMAIN cache_entry
    THEN FALSE
    ELSE IF ~IsIsoString(cache_entry.timestamp)
         THEN FALSE
         ELSE fromisoformat(cache_entry.timestamp) >= t - CACHE_EXPIRY_HOURS

_is_cache_entry_valid(cache_entry, t) ==
    IF cache_entry = EmptyDict \/ "timestamp" \notin DOMAIN cache_entry
    THEN FALSE
    ELSE IF ~IsIsoString(cache_entry.timestamp)
         THEN FALSE
         ELSE fromisoformat(cache_entry.timestamp) > t - CACHE_EXPIRY_HOURS

----------------------------------------------------------------------------
(* The remote CRM *)

IdX == "aaaaaaaa-1"

IdY == "bbbbbbbb-2"

\* What the remote collections may hold when a request arrives.  A record
\* is listed once per content it may have at that time.
CrmRecords ==
    { [endpoint |-> "systemusers", id |-> IdX, body |-> [fullname |-> PyStr("Jo")]],
      [endpoint |-> "systemusers", id |-> IdY, body |-> [fullname |-> PyStr("Jon")]],
      [endpoint |-> "businessunits", id |-> IdX, body |-> [name |-> PyStr("Ops")]],
      [endpoint |-> "accounts", id |-> IdX, body |-> [name |-> PyStr("Acme")]],
      [endpoint |-> "accounts", id |-> IdX, body |-> [name |-> PyStr("Errors Ltd")]],
      [endpoint |-> "accounts", id |-> IdX, body |-> [name |-> PyNone]],
      [endpoint |-> "contacts", id |-> IdY, body |-> [fullname |-> PyStr("Bob")]],
      [endpoint |-> "contacts", id |-> IdY, body |-> EmptyDict] }

\* An opportunity with all its references, and one whose references are
\* null, empty or not delivered.
OppFull ==
    ("@odata.etag" :> PyStr("W/1")) @@
    [opportunityid |-> PyStr("cccccccc-3"), name |-> PyStr("Deal"),
     _ownerid_value |-> PyStr(IdY), _customerid_value |-> PyStr(IdY),
     _actum_divisionid_value |-> PyStr(IdX), _transactioncurrencyid_value |-> PyStr("eur")]

OppBare ==
    [opportunityid |-> PyStr("dddddddd-4"), name |-> PyStr("Lead"),
     _ownerid_value |-> PyNone, _customerid_value |-> PyStr("")]

NoRequest == [kind |-> "none"]

\* requests.get raised, or response.json() did.
Raised == [kind |-> "raise"]

Http(status, json) == [kind |-> "http", status_code |-> status, json |-> json]

\* Statuses other than 200 and 404 that the remote answers with on failure.
ServerError == Http(500, EmptyDict)

\* The requests that may fail in transit or at the remote, and how.
Faults ==
    { [endpoint |-> "systemusers", filter |-> "id", arg |-> IdX, resp |-> ServerError],
      [endpoint |-> "systemusers", filter |-> "id", arg |-> IdX, resp |-> Raised],
      [endpoint |-> "accounts", filter |-> "id", arg |-> IdX, resp |-> ServerError],
      [endpoint |-> "systemusers", filter |-> "exact", arg |-> "Jo", resp |-> ServerError],
      [endpoint |-> "systemusers", filter |-> "exact", arg |-> "Jo", resp |-> Raised],
      [endpoint |-> "systemusers", filter |-> "partial", arg |-> "Jo", resp |-> Raised],
      [endpoint |-> "systemusers", filter |-> "partial", arg |-> "on", resp |-> ServerError] }

Failures(endpoint, filter, arg) ==
    {f.resp : f \in {g \in Faults : g.endpoint = endpoint /\ g.filter = filter /\ g.arg = arg}}

\* The answers the remote can give to GET {endpoint}({id})?$select=...
GetById(endpoint, id) ==
    LET hits == {r \in CrmRecords : r.endpoint = endpoint /\ r.id = id}
    IN  IF hits = {} THEN {Http(HTTP_NOT_FOUND, EmptyDict)}
        ELSE {Http(HTTP_OK, r.body) : r \in hits}

\* The answers the remote can give to GET {endpoint}?$filter=...&$top=1
Search(endpoint, id_field, name_field, filter_type, search_name) ==
    LET named == {r \in CrmRecords : r.endpoint = endpoint /\ name_field \in DOMAIN r.body
                                      /\ r.body[name_field].py = "str"}
        hits == {r \in named :
                    IF filter_type = "exact" THEN r.body[name_field].s = search_name
                    ELSE Contains(r.body[name_field].s, search_name)}
        row(r) == [x \in {id_field, name_field} |->
                      IF x = id_field THEN PyStr(r.id) ELSE r.body[name_field]]
    IN  IF hits = {} THEN {Http(HTTP_OK, [value |-> <<>>])}
        ELSE {Http(HTTP_OK, [value |-> <<row(r)>>]) : r \in hits}

----------------------------------------------------------------------------
(* EntityCache *)

\* entity_configs of _fetch_from_crm
FetchConfigs ==
    [account  |-> [endpoint |-> "accounts", name_field |-> "name"],
     contact  |-> [endpoint |-> "contacts", name_field |-> "fullname"],
     user     |-> [endpoint |-> "systemusers", name_field |-> "fullname"],
     division |-> [endpoint |-> "businessunits", name_field |-> "name"],
     service  |-> [endpoint |-> "actum_proposedservices", name_field |-> "actum_name"]]

\* Accounts can be searched by name as well.
ReverseConfigs_with_account ==
    [user     |-> [endpoint |-> "systemusers", name_field |-> "fullname",
                   id_field |-> "systemuserid"],
     division |-> [endpoint |-> "businessunits", name_field |-> "name",
                   id_field |-> "businessunitid"],
     account  |-> [endpoint |-> "accounts", name_field |-> "name",
                   id_field |-> "accountid"]]

\* entity_configs of reverse_lookup
ReverseConfigs ==
    [user     |-> [endpoint |-> "systemusers", name_field |-> "fullname",
                   id_field |-> "systemuserid"],
     division |-> [endpoint |-> "businessunits", name_field |-> "name",
                   id_field |-> "businessunitid"]]

SentinelPrefixes == {"Unknown", "Not found", "Error"}

\* The fallback strings carry the whole id.
_fetch_from_crm_whole_id(entity_type, entity_id, resp) ==
    IF entity_type \notin DOMAIN FetchConfigs
    THEN PyStr("Unknown type (" \o entity_type \o ")")
    ELSE LET config == FetchConfigs[entity_type]
         IN  IF resp.kind = "raise"
             THEN PyStr("Error (" \o entity_id \o "...)")
             ELSE IF resp.status_code = HTTP_OK
             THEN DictGet(resp.json, config.name_field,
                          PyStr("No name (" \o entity_id \o "...)"))
             ELSE IF resp.status_code = HTTP_NOT_FOUND
             THEN PyStr("Not found (" \o entity_id \o "...)")
             ELSE PyStr("Error " \o ToString(resp.status_code) \o " ("
                        \o entity_id \o "...)")

\* The name (or fallback string) for the response resp to the GET request;
\* resp is not looked at when the type is not configured.
_fetch_from_crm(entity_type, entity_id, resp) ==
    IF entity_type \notin DOMAIN FetchConfigs
    THEN PyStr("Unknown type (" \o entity_type \o ")")
    ELSE LET config == FetchConfigs[entity_type]
         IN  IF resp.kind = "raise"
             THEN PyStr("Error (" \o Slice(entity_id, SliceLen) \o "...)")
             ELSE IF resp.status_code = HTTP_OK
             THEN DictGet(resp.json, config.name_field,
                          PyStr("No name (" \o Slice(entity_id, SliceLen) \o "...)"))
             ELSE IF resp.status_code = HTTP_NOT_FOUND
             THEN PyStr("Not found (" \o Slice(entity_id, SliceLen) \o "...)")
             ELSE PyStr("Error " \o ToString(resp.status_code) \o " ("
                        \o Slice(entity_id, SliceLen) \o "...)")

\* The request _fetch_from_crm issues, as an entry of the operation's trace.
FetchRequest(entity_type, entity_id, resp) ==
    [req |-> "fetch", type |-> entity_type, arg |-> entity_id, filter |-> "id",
     resp |-> IF entity_type \in DOMAIN FetchConfigs THEN resp ELSE NoRequest]

\* A request as it is recorded in the trace of the operation: with the
\* document that is on disk at the moment the request goes out.
Sent(self, request) ==
    [req |-> request.req, type |-> request.type, arg |-> request.arg,
     filter |-> request.filter, resp |-> request.resp, file |-> self.file]

CacheKey(entity_type, entity_id) == entity_type \o "_" \o entity_id

\* Fallback strings are returned and not cached.
StoreFetched_names_only(self, cache_key, name) ==
    IF Truthy(name) /\ StartsWithAny(name.s, SentinelPrefixes)
    THEN self
    ELSE _save_cache([self EXCEPT !.cache_data =
             DictSet(@, cache_key, [name |-> name, timestamp |-> isoformat(self.now)])])

StoreFetched(self, cache_key, name) ==
    _save_cache([self EXCEPT !.cache_data =
        DictSet(@, cache_key, [name |-> name, timestamp |-> isoformat(self.now)])])

\* Only an absent id short-circuits; an empty one is looked up.
entity_lookup_none_only(self, entity_type, entity_id, resp) ==
    IF entity_id = PyNone
    THEN [ret |-> PyStr("N/A"), self |-> self]
    ELSE LET cache_key == CacheKey(entity_type, entity_id.s)
             present == cache_key \in DOMAIN self.cache_data
         IN  IF present /\ _is_cache_entry_valid(self.cache_data[cache_key], self.now)
             THEN [ret |-> self.cache_data[cache_key].name, self |-> self]
             ELSE LET swept == [self EXCEPT !.cache_data = DictDel(@, cache_key)]
                      name == _fetch_from_crm(entity_type, entity_id.s, resp)
                      asked == [swept EXCEPT !.trace =
                                   Append(@, Sent(swept, FetchRequest(entity_type, entity_id.s, resp)))]
                  IN  [ret |-> name, self |-> StoreFetched(asked, cache_key, name)]

\* A read refreshes the timestamp of the entry.
entity_lookup_touching(self, entity_type, entity_id, resp) ==
    IF ~Truthy(entity_id)
    THEN [ret |-> PyStr("N/A"), self |-> self]
    ELSE LET cache_key == CacheKey(entity_type, entity_id.s)
             present == cache_key \in DOMAIN self.cache_data
         IN  IF present /\ _is_cache_entry_valid(self.cache_data[cache_key], self.now)
             THEN [ret |-> self.cache_data[cache_key].name,
                   self |-> StoreFetched(self, cache_key, self.cache_data[cache_key].name)]
             ELSE LET swept == [self EXCEPT !.cache_data = DictDel(@, cache_key)]
                      name == _fetch_from_crm(entity_type, entity_id.s, resp)
                      asked == [swept EXCEPT !.trace =
                                   Append(@, Sent(swept, FetchRequest(entity_type, entity_id.s, resp)))]
                  IN  [ret |-> name, self |-> StoreFetched(asked, cache_key, name)]

entity_lookup(self, entity_type, entity_id, resp) ==
    IF ~Truthy(entity_id)
    THEN [ret |-> PyStr("N/A"), self |-> self]
    ELSE LET cache_key == CacheKey(entity_type, entity_id.s)
             present == cache_key \in DOMAIN self.cache_data
         IN  IF present /\ _is_cache_entry_valid(self.cache_data[cache_key], self.now)
             THEN [ret |-> self.cache_data[cache_key].name, self |-> self]
             ELSE LET swept == [self EXCEPT !.cache_data = DictDel(@, cache_key)]
                      name == _fetch_from_crm(entity_type, entity_id.s, resp)
                      asked == [swept EXCEPT !.trace =
                                   Append(@, Sent(swept, FetchRequest(entity_type, entity_id.s, resp)))]
                  IN  [ret |-> name, self |-> StoreFetched(asked, cache_key, name)]

\* "Not found" is not among the prefixes.
get_customer_name_two_prefixes(self, customer_id, resp_account, resp_contact) ==
    IF ~Truthy(customer_id)
    THEN [ret |-> PyStr("N/A"), self |-> self]
    ELSE LET first == entity_lookup(self, "account", customer_id, resp_account)
         IN  IF Truthy(first.ret) /\ ~StartsWithAny(first.ret.s, {"Unknown", "Error"})
             THEN first
             ELSE entity_lookup(first.self, "contact", customer_id, resp_contact)

get_customer_name(self, customer_id, resp_account, resp_contact) ==
    IF ~Truthy(customer_id)
    THEN [ret |-> PyStr("N/A"), self |-> self]
    ELSE LET first == entity_lookup(self, "account", customer_id, resp_account)
         IN  IF Truthy(first.ret) /\ ~StartsWithAny(first.ret.s, SentinelPrefixes)
             THEN first
             ELSE entity_lookup(first.self, "contact", customer_id, resp_contact)

\* The match is returned and not written to the table.
SearchAttempt_no_store(self, entity_type, search_name, filter_type, resp) ==
    LET config == ReverseConfigs[entity_type]
        asked == [self EXCEPT !.trace =
                     Append(@, Sent(self, [req |-> "search", type |-> entity_type,
                                             arg |-> search_name, filter |-> filter_type,
                                             resp |-> resp]))]
        results == DictGet(resp.json, "value", <<>>)
        result == results[1]
        entity_id == DictGet(result, config.id_field, PyNone)
    IN  IF resp.kind = "raise"
        THEN [go |-> "break", ret |-> PyNone, self |-> asked]
        ELSE IF resp.status_code = HTTP_OK /\ results /= <<>> /\ Truthy(entity_id)
        THEN [go |-> "return", ret |-> entity_id, self |-> asked]
        ELSE [go |-> "continue", ret |-> PyNone, self |-> asked]

\* One pass of the loop over ('exact', 'partial'): go is "return", "break"
\* or "continue".
SearchAttempt(self, entity_type, search_name, filter_type, resp) ==
    LET config == ReverseConfigs[entity_type]
        asked == [self EXCEPT !.trace =
                     Append(@, Sent(self, [req |-> "search", type |-> entity_type,
                                             arg |-> search_name, filter |-> filter_type,
                                             resp |-> resp]))]
        results == DictGet(resp.json, "value", <<>>)
        result == results[1]
        entity_id == DictGet(result, config.id_field, PyNone)
        entity_name == DictGet(result, config.name_field, PyNone)
    IN  IF resp.kind = "raise"
        THEN [go |-> "break", ret |-> PyNone, self |-> asked]
        ELSE IF resp.status_code = HTTP_OK /\ results /= <<>> /\ Truthy(entity_id)
        THEN [go |-> "return", ret |-> entity_id,
              self |-> StoreFetched(asked, CacheKey(entity_type, entity_id.s), entity_name)]
        ELSE [go |-> "continue", ret |-> PyNone, self |-> asked]

RECURSIVE SearchLoop(_, _, _, _, _)
SearchLoop(self, entity_type, search_name, filters, resps) ==
    IF filters = <<>>
    THEN [ret |-> PyNone, self |-> self]
    ELSE LET pass == SearchAttempt(self, entity_type, search_name, Head(filters), Head(resps))
         IN  IF pass.go = "continue"
             THEN SearchLoop(pass.self, entity_type, search_name, Tail(filters), Tail(resps))
             ELSE [ret |-> pass.ret, self |-> pass.self]

FilterTypes == <<"exact", "partial">>

reverse_lookup(self, entity_type, search_name, resps) ==
    IF ~Truthy(search_name)
    THEN [ret |-> PyNone, self |-> self]
    ELSE IF entity_type \notin DOMAIN ReverseConfigs
    THEN [ret |-> PyNone, self |-> self]
    ELSE SearchLoop(self, entity_type, search_name.s, FilterTypes, resps)

----------------------------------------------------------------------------
(* CRMClient *)

\* An exception leaving a function, as the outcome of the call.
PyRaise(exc, msg) == [py |-> "raise", exc |-> exc, msg |-> msg]

PyList(l) == [py |-> "list", l |-> l]

PyDict(d) == [py |-> "dict", d |-> d]

\* sep.join(parts)
RECURSIVE Join(_, _)
Join(parts, sep) ==
    IF parts = <<>> THEN ""
    ELSE IF Len(parts) = 1 THEN parts[1]
    ELSE parts[1] \o sep \o Join(Tail(parts), sep)

fields_to_remove ==
    {"_ownerid_value", "_customerid_value", "_actum_divisionid_value",
     "_transactioncurrencyid_value", "@odata.etag", "opportunityid"}

\* The record id stays in the opportunity.
_clean_opportunity_data_keeping_id(opportunity) ==
    [k \in DOMAIN opportunity \ (fields_to_remove \ {"opportunityid"}) |-> opportunity[k]]

_clean_opportunity_data(opportunity) ==
    [k \in DOMAIN opportunity \ fields_to_remove |-> opportunity[k]]

\* The response chosen for the fetch of (entity_type, entity_id), if one
\* is needed.
RespFor(fetch, entity_type, entity_id) ==
    IF Truthy(entity_id) /\ <<entity_type, entity_id.s>> \in DOMAIN fetch
    THEN fetch[<<entity_type, entity_id.s>>]
    ELSE NoRequest

\* One pass of the loop over result.get('value', []).
EnrichOne(self, opportunity, fetch) ==
    LET owner_id == DictGet(opportunity, "_ownerid_value", PyStr(""))
        customer_id == DictGet(opportunity, "_customerid_value", PyStr(""))
        division_id == DictGet(opportunity, "_actum_divisionid_value", PyStr(""))
        owner == entity_lookup(self, "user", owner_id, RespFor(fetch, "user", owner_id))
        customer == get_customer_name(owner.self, customer_id,
                                      RespFor(fetch, "account", customer_id),
                                      RespFor(fetch, "contact", customer_id))
        div == entity_lookup(customer.self, "division", division_id,
                             RespFor(fetch, "division", division_id))
        named == DictSet(DictSet(DictSet(opportunity, "owner_name", owner.ret),
                                 "customer_name", customer.ret),
                         "division_name", div.ret)
    IN  [opportunity |-> _clean_opportunity_data(named), self |-> div.self]

RECURSIVE Enrich(_, _, _)
Enrich(self, opportunities, fetch) ==
    IF opportunities = <<>>
    THEN [value |-> <<>>, self |-> self]
    ELSE LET one == EnrichOne(self, Head(opportunities), fetch)
             rest == Enrich(one.self, Tail(opportunities), fetch)
         IN  [value |-> <<one.opportunity>> \o rest.value, self |-> rest.self]

\* The query and what follows it: the error result, or the enrichment of
\* the opportunities that came back.
QueryOpportunities(self, filter_conditions, resps) ==
    LET asked == [self EXCEPT !.trace =
                     Append(@, Sent(self, [req |-> "query", type |-> "opportunities",
                                           arg |-> Join(filter_conditions, " and "),
                                           filter |-> "$filter", resp |-> resps.query]))]
    IN  IF resps.query.kind = "raise"
        THEN [ret |-> PyRaise("RequestException", "connection failed"), self |-> asked]
        ELSE IF resps.query.status_code /= HTTP_OK
        THEN [ret |-> PyDict([status |-> "error", status_code |-> resps.query.status_code,
                              message |-> "Failed to fetch opportunities"]),
              self |-> asked]
        ELSE LET done == Enrich(asked, DictGet(resps.query.json, "value", <<>>), resps.fetch)
             IN  [ret |-> PyDict([value |-> done.value]), self |-> done.self]

\* The name given as a filter is resolved to an id, if a name is given.
ResolveFilter(self, entity_type, name, resps) ==
    IF Truthy(name)
    THEN reverse_lookup(self, entity_type, name, resps)
    ELSE [ret |-> PyNone, self |-> self]

\* filter_conditions.append(...) if the name was given and resolved.
FilterCondition(field, name, id) ==
    IF Truthy(name) /\ Truthy(id)
    THEN <<field \o " eq '" \o id.s \o "'">>
    ELSE <<>>

\* get_open_opportunities from the resolution of the division on, the
\* owner resolved to owner_id (or not).
FilterByDivision(owner, owner_id, division, division_id, resps) ==
    QueryOpportunities(division_id.self,
                       <<"statecode eq 0">>
                          \o FilterCondition("_ownerid_value", owner, owner_id.ret)
                          \o FilterCondition("_actum_divisionid_value", division, division_id.ret),
                       resps)

FilterByOwner(owner, owner_id, division, resps) ==
    FilterByDivision(owner, owner_id, division,
                     ResolveFilter(owner_id.self, "division", division, resps.division), resps)

\* resps holds the responses to the searches for the owner and for the
\* division, to the query, and to the fetches of the enrichment.
get_open_opportunities(self, owner, division, resps) ==
    FilterByOwner(owner, ResolveFilter(self, "user", owner, resps.owner), division, resps)

\* get_users and get_divisions: the listing of a collection, each row
\* reduced to the fields named, 'N/A' for a field the row lacks.
ListCollection(self, endpoint, fields, resp) ==
    LET asked == [self EXCEPT !.trace =
                     Append(@, Sent(self, [req |-> "query", type |-> endpoint,
                                           arg |-> "isdisabled eq false",
                                           filter |-> "$filter", resp |-> resp]))]
        rows == DictGet(resp.json, "value", <<>>)
    IN  IF resp.kind = "raise"
        THEN [ret |-> PyRaise("RequestException", "connection failed"), self |-> asked]
        ELSE IF resp.status_code /= HTTP_OK
        THEN [ret |-> PyList(<<>>), self |-> asked]
        ELSE [ret |-> PyList([k \in 1..Len(rows) |->
                                 [f \in fields |-> DictGet(rows[k], f, PyStr("N/A"))]]),
              self |-> asked]

get_divisions(self, resp) ==
    ListCollection(self, "businessunits", {"name", "divisionname", "businessunitid"}, resp)

get_users(self, resp) ==
    ListCollection(self, "systemusers", {"fullname", "domainname", "systemuserid"}, resp)

\* CRMClient.__init__: the token, the id of the current user, and a cache
\* of its own, loaded from the file.
CRMClient(self, config, world) ==
    LET with_token == [self EXCEPT !.trace =
                          Append(@, Sent(self, [req |-> "token", type |-> "msal",
                                                arg |-> config.d.tenant_id.s,
                                                filter |-> "", resp |-> world.token]))]
        with_user == [with_token EXCEPT !.trace =
                         Append(@, Sent(self, [req |-> "whoami", type |-> "WhoAmI",
                                               arg |-> "", filter |-> "",
                                               resp |-> world.whoami]))]
    IN  IF "access_token" \notin DOMAIN world.token.json
        THEN [ret |-> PyRaise("ConnectionError",
                              "Failed to acquire access token: "
                                 \o DictGet(world.token.json, "error", "None") \o " - "
                                 \o DictGet(world.token.json, "error_description", "None")),
              self |-> with_token]
        ELSE IF world.whoami.kind = "raise"
        THEN [ret |-> PyRaise("RequestException", "connection failed"), self |-> with_user]
        ELSE IF world.whoami.status_code /= HTTP_OK
        THEN [ret |-> PyRaise("ValueError",
                              "Unable to get current user ID: HTTP "
                                 \o ToString(world.whoami.status_code)),
              self |-> with_user]
        ELSE [ret |-> PyNone,
              self |-> [with_user EXCEPT !.cache_data = _load_cache(self.file),
                                         !.saveFailed = FALSE]]

----------------------------------------------------------------------------
(* The server: src/crm_mcp/server.py *)

ConfigKeys == <<"client_id", "client_secret", "tenant_id", "resource">>

\* os.getenv of the variable behind a key of the configuration.
Getenv(env, key) ==
    CASE key = "client_id" -> env.CLIENT_ID
      [] key = "client_secret" -> env.CLIENT_SECRET
      [] key = "tenant_id" -> env.TENANT_ID
      [] key = "resource" -> env.RESOURCE

\* missing_vars.upper(): missing_vars is a list, and a list has no upper.
ListUpper(l) == PyRaise("AttributeError", "'list' object has no attribute 'upper'")

\* The configuration, or the exception that leaves get_crm_config: the
\* message of the log line is formatted first, and its formatting raises.
get_crm_config(env) ==
    LET config == [key \in {ConfigKeys[k] : k \in 1..Len(ConfigKeys)} |-> Getenv(env, key)]
        missing_vars == SelectSeq(ConfigKeys, LAMBDA key : ~Truthy(config[key]))
    IN  IF missing_vars /= <<>>
        THEN ListUpper(missing_vars)
        ELSE PyDict(config)

TextContent(text) == [type |-> "text", text |-> text]

\* json.dumps(result, indent=2, default=str, ensure_ascii=False)
json_dumps(result) == [py |-> "json", of |-> result.py, doc |-> result]

ToolNames == {"get_open_opportunities", "get_users", "get_divisions"}

\* The match statement of call_tool, for the client constructed.
Dispatch(client, name, arguments, world) ==
    CASE name = "get_open_opportunities" ->
            get_open_opportunities(client, DictGet(arguments, "owner", PyNone),
                                   DictGet(arguments, "division", PyNone), world.resps)
      [] name = "get_users" -> get_users(client, world.listing)
      [] name = "get_divisions" -> get_divisions(client, world.listing)
      [] OTHER ->
            [ret |-> [py |-> "return",
                      text |-> PyStr("Error: Unsupported tool operation '" \o name \o "'")],
             self |-> client]

\* The try block of call_tool from CRMClient(**config) on.
WithClient(constructed, name, arguments, world) ==
    IF constructed.ret.py = "raise" THEN constructed
    ELSE Dispatch(constructed.self, name, arguments, world)

\* The try block of call_tool from the configuration on.
WithConfig(self, config, name, arguments, world) ==
    IF config.py = "raise" THEN [ret |-> config, self |-> self]
    ELSE WithClient(CRMClient(self, config, world), name, arguments, world)

\* What call_tool returns for the outcome of its try block: the message of
\* the exception, the text returned early, or the result as JSON.
Respond(name, result) ==
    IF result.ret.py = "raise"
    THEN [ret |-> <<TextContent(PyStr("Error executing tool " \o name \o ": "
                                        \o result.ret.msg))>>,
          self |-> result.self]
    ELSE IF result.ret.py = "return"
    THEN [ret |-> <<TextContent(result.ret.text)>>, self |-> result.self]
    ELSE [ret |-> <<TextContent(json_dumps(result.ret))>>, self |-> result.self]

\* world is what the call meets: the environment variables, the answers
\* to the token request and to WhoAmI, and the answers of the CRM.
call_tool(self, name, arguments, world) ==
    Respond(name, WithConfig(self, get_crm_config(world.env), name, arguments, world))

\* main(): "returned" after a configuration error, "serving" once the
\* stdio server runs, or the exception that leaves it.
main(env) ==
    LET config == get_crm_config(env)
    IN  IF config.py = "raise"
        THEN IF config.exc = "ValueError" THEN PyStr("returned") ELSE config
        ELSE PyStr("serving")

----------------------------------------------------------------------------
(* Inputs of the operations *)

Caches == {"c1", "c2"}

\* "lead" is a type _fetch_from_crm has no configuration for.
LookupArgs ==
    { <<"user", PyNone>>, <<"lead", PyStr("")>>, <<"user", PyStr(IdX)>>,
      <<"user", PyStr(IdY)>>, <<"lead", PyStr(IdX)>> }

CustomerIds == {PyNone, PyStr(""), PyStr(IdX), PyStr(IdY)}

ReverseArgs ==
    { <<"account", PyStr("Acme")>>, <<"contact", PyStr("Bob")>>, <<"service", PyStr("Jo")>>,
      <<"user", PyStr("")>>, <<"division", PyNone>>,
      <<"user", PyStr("Jo")>>, <<"user", PyStr("on")>>, <<"division", PyStr("Ops")>> }

\* The inputs of the operations when the storage may fail.
StorageLookupArgs == { <<"user", PyStr(IdY)>>, <<"lead", PyStr(IdX)>> }

StorageCustomerIds == {PyStr(IdX), PyStr(IdY)}

StorageReverseArgs == { <<"division", PyStr("Ops")>> }

DiskStates == {"ok", "readonly", "full"}

\* The responses the remote may give to the fetch of (entity_type, entity_id).
FetchResponses(entity_type, entity_id) ==
    IF entity_type \in DOMAIN FetchConfigs /\ Truthy(entity_id)
    THEN LET endpoint == FetchConfigs[entity_type].endpoint
         IN  GetById(endpoint, entity_id.s) \cup Failures(endpoint, "id", entity_id.s)
    ELSE {NoRequest}

\* The responses the remote may give to one search of reverse_lookup.
SearchResponses(entity_type, search_name, filter_type) ==
    IF entity_type \in DOMAIN ReverseConfigs /\ Truthy(search_name)
    THEN LET config == ReverseConfigs[entity_type]
         IN  Search(config.endpoint, config.id_field, config.name_field,
                    filter_type, search_name.s)
                 \cup Failures(config.endpoint, filter_type, search_name.s)
    ELSE {NoRequest}

\* The ways the remote may answer the fetches that the enrichment of its
\* opportunities asks for.
FetchChoices ==
    { (<<"user", IdY>> :> u) @@ (<<"account", IdY>> :> a) @@
      (<<"contact", IdY>> :> c) @@ (<<"division", IdX>> :> d) :
         u \in FetchResponses("user", PyStr(IdY)),
         a \in FetchResponses("account", PyStr(IdY)),
         c \in FetchResponses("contact", PyStr(IdY)),
         d \in FetchResponses("division", PyStr(IdX)) }

\* The answers of the remote to the query for the open opportunities.
QueryResponses ==
    {Http(HTTP_OK, [value |-> <<OppFull, OppBare>>]), ServerError}

\* The answers of the remote to the listing of users and of divisions.
ListingResponses ==
    {Http(HTTP_OK, [value |-> <<[systemuserid |-> PyStr(IdX), fullname |-> PyStr("Jo"),
                                 businessunitid |-> PyStr(IdX), name |-> PyStr("Ops")]>>]),
     ServerError, Raised}

\* The answers to the token request.
TokenGranted == [kind |-> "msal", json |-> [access_token |-> "t0k3n"]]

TokenRefused == [kind |-> "msal", json |-> [error |-> "invalid_client"]]

\* The environment of the process: complete, with a variable unset, with
\* variables set to nothing.
EnvComplete ==
    [CLIENT_ID |-> PyStr("id"), CLIENT_SECRET |-> PyStr("secret"),
     TENANT_ID |-> PyStr("tenant"), RESOURCE |-> PyStr("https://crm")]

Envs ==
    {EnvComplete,
     [EnvComplete EXCEPT !.CLIENT_SECRET = PyNone],
     [EnvComplete EXCEPT !.TENANT_ID = PyStr(""), !.RESOURCE = PyStr("")]}

\* What a call of the tool name may meet: a broken environment, a refused
\* token, a failing WhoAmI, or a CRM that can be reached and answers the
\* requests of the tool in its various ways.
Worlds(name) ==
    LET listings == IF name \in {"get_users", "get_divisions"}
                    THEN ListingResponses ELSE {ServerError}
        queries == IF name = "get_open_opportunities" THEN QueryResponses ELSE {ServerError}
        fetches == IF name = "get_open_opportunities" THEN FetchChoices
                   ELSE {CHOOSE f \in FetchChoices : TRUE}
        met(env, token, whoami, ls, qs, fs) ==
           {[env |-> env, token |-> token, whoami |-> whoami,
             listing |-> l,
             resps |-> [owner |-> <<oe, op>>, division |-> <<NoRequest, NoRequest>>,
                        query |-> q, fetch |-> f]] :
               l \in ls, q \in qs, f \in fs,
               oe \in SearchResponses("user", PyStr("Zed"), "exact"),
               op \in SearchResponses("user", PyStr("Zed"), "partial")}
        unreached(env, token, whoami) ==
           met(env, token, whoami, {ServerError}, {ServerError},
               {CHOOSE f \in FetchChoices : TRUE})
    IN  met(EnvComplete, TokenGranted, Http(HTTP_OK, [UserId |-> PyStr(IdX)]),
            listings, queries, fetches)
        \cup UNION {unreached(env, TokenGranted, ServerError) : env \in Envs \ {EnvComplete}}
        \cup unreached(EnvComplete, TokenRefused, Raised)
        \cup unreached(EnvComplete, TokenGranted, ServerError)
        \cup unreached(EnvComplete, TokenGranted, Raised)

\* The calls of tools: a name, and the arguments that come with it.
ToolCalls ==
    { <<"get_open_opportunities", EmptyDict>>,
      <<"get_open_opportunities", [owner |-> PyStr("Zed")]>>,
      <<"get_users", EmptyDict>>, <<"get_divisions", EmptyDict>>,
      <<"delete_opportunity", EmptyDict>>, <<"", EmptyDict>> }

\* Names of owners and divisions to filter by; nobody is named "Zed".
Owners == {PyNone, PyStr("on"), PyStr("Zed")}

Divisions == {PyNone, PyStr("Ops")}

----------------------------------------------------------------------------
(* Observations *)

NoCall == [op |-> "none"]

\* The requests of a trace that went to the remote.
RemoteCalls(trace) == SelectSeq(trace, LAMBDA e : e.resp.kind /= "none")

FetchFailed(e) ==
    e.resp.kind \in {"none", "raise"} \/ e.resp.status_code /= HTTP_OK

\* negative records, per key, the fallback string the most recent fetch of
\* entity_lookup cached and when; a later successful fetch of the key clears
\* the record, a write of the key by reverse_lookup marks it overwritten.
RECURSIVE NegAfterFetches(_, _, _)
NegAfterFetches(neg, trace, t) ==
    IF trace = <<>> THEN neg
    ELSE LET e == Head(trace)
             key == CacheKey(e.type, e.arg)
             found == DictGet(e.resp.json, "value", <<>>)[1][ReverseConfigs[e.type].id_field]
             next == IF e.req = "search"
                     THEN IF /\ e.resp.kind = "http" /\ e.resp.status_code = HTTP_OK
                             /\ DictGet(e.resp.json, "value", <<>>) /= <<>>
                             /\ CacheKey(e.type, found.s) \in DOMAIN neg
                          THEN [neg EXCEPT ![CacheKey(e.type, found.s)].overwritten = TRUE]
                          ELSE neg
                     ELSE IF e.req /= "fetch" THEN neg
                     ELSE IF FetchFailed(e)
                     THEN DictSet(neg, key, [type |-> e.type, id |-> e.arg,
                                             name |-> _fetch_from_crm(e.type, e.arg, e.resp),
                                             time |-> t, overwritten |-> FALSE])
                     ELSE DictDel(neg, key)
         IN  NegAfterFetches(next, Tail(trace), t)

NegAfter(neg, op, args, r, t) ==
    IF op = "reverse_lookup"
    THEN IF Truthy(r.ret) /\ CacheKey(args[1], r.ret.s) \in DOMAIN neg
         THEN [neg EXCEPT ![CacheKey(args[1], r.ret.s)].overwritten = TRUE]
         ELSE neg
    ELSE NegAfterFetches(neg, r.self.trace, t)

----------------------------------------------------------------------------
(* Actions *)

\* d is the condition of the storage while the operation runs.
View(i, d) ==
    [cache_data |-> cache_data[i], file |-> file, disk |-> d, now |-> now,
     trace |-> <<>>, saveFailed |-> saveFailed[i], saves |-> <<>>]

Commit(i, op, args, r) ==
    /\ cache_data' = [cache_data EXCEPT ![i] = r.self.cache_data]
    /\ file' = r.self.file
    /\ saveFailed' = [saveFailed EXCEPT ![i] = r.self.saveFailed]
    /\ last' = [op |-> op, inst |-> i, args |-> args, ret |-> r.ret,
                trace |-> r.self.trace, saves |-> r.self.saves, at |-> now,
                pre |-> cache_data[i], prefile |-> file]
    /\ negative' = [negative EXCEPT ![i] = NegAfter(@, op, args, r, now)]
    /\ calls' = calls + 1
    /\ UNCHANGED <<now, ticks>>

TypeOK ==
    /\ now \in Nat /\ ticks \in 0..MaxTicks /\ calls \in 0..MaxCalls
    /\ file.kind \in {"missing", "corrupt", "json"}
    /\ DOMAIN cache_data = Caches

Init ==
    /\ now = 0
    /\ ticks = 0
    /\ calls = 0
    /\ file \in {Missing, Corrupt}
    /\ cache_data = [i \in Caches |-> _load_cache(file)]
    /\ last = NoCall
    /\ negative = [i \in Caches |-> EmptyDict]
    /\ saveFailed = [i \in Caches |-> FALSE]

\* EntityCache.__init__: a new cache object takes the place of instance i.
Construct(i) ==
    /\ cache_data' = [cache_data EXCEPT ![i] = _load_cache(file)]
    /\ last' = NoCall
    /\ negative' = [negative EXCEPT ![i] = EmptyDict]
    /\ saveFailed' = [saveFailed EXCEPT ![i] = FALSE]
    /\ UNCHANGED <<now, ticks, calls, file>>

\* The operations take their arguments from Args and run under a storage
\* condition of Disks.
EntityLookup(i, Args, Disks) ==
    /\ calls < MaxCalls
    /\ \E args \in Args, d \in Disks :
         \E resp \in FetchResponses(args[1], args[2]) :
            Commit(i, "entity_lookup", args,
                   entity_lookup(View(i, d), args[1], args[2], resp))

GetCustomerName(i, Ids, Disks) ==
    /\ calls < MaxCalls
    /\ \E customer_id \in Ids, d \in Disks :
         \E ra \in FetchResponses("account", customer_id),
            rc \in FetchResponses("contact", customer_id) :
            Commit(i, "get_customer_name", <<customer_id>>,
                   get_customer_name(View(i, d), customer_id, ra, rc))

ReverseLookup(i, Args, Disks) ==
    /\ calls < MaxCalls
    /\ \E args \in Args, d \in Disks :
         \E re \in SearchResponses(args[1], args[2], "exact"),
            rp \in SearchResponses(args[1], args[2], "partial") :
            Commit(i, "reverse_lookup", args,
                   reverse_lookup(View(i, d), args[1], args[2], <<re, rp>>))

GetOpenOpportunities(i, Disks) ==
    /\ calls < MaxCalls
    /\ \E owner \in Owners, division \in Divisions, d \in Disks :
         \E oe \in SearchResponses("user", owner, "exact"),
            op \in SearchResponses("user", owner, "partial"),
            de \in SearchResponses("division", division, "exact"),
            dp \in SearchResponses("division", division, "partial"),
            q \in QueryResponses, f \in FetchChoices :
            Commit(i, "get_open_opportunities", <<owner, division>>,
                   get_open_opportunities(View(i, d), owner, division,
                       [owner |-> <<oe, op>>, division |-> <<de, dp>>,
                        query |-> q, fetch |-> f]))

\* A tool call arrives at the server.
CallTool(i, Disks) ==
    /\ calls < MaxCalls
    /\ \E tc \in ToolCalls, d \in Disks :
       \E world \in Worlds(tc[1]) :
          Commit(i, "call_tool", <<tc[1], tc[2], world.env>>,
                 call_tool(View(i, d), tc[1], tc[2], world))

\* The process starts: main() runs in some environment.
Main(i) ==
    /\ calls < MaxCalls
    /\ \E env \in Envs :
          Commit(i, "main", <<env>>, [ret |-> main(env), self |-> View(i, "ok")])

\* The clock advances between operations.
Tick ==
    /\ ticks < MaxTicks
    /\ now' = now + TickSteps[ticks + 1]
    /\ ticks' = ticks + 1
    /\ UNCHANGED <<calls, file, cache_data, last, negative, saveFailed>>

\* One cache instance, rebuilt from the file at any time (a process
\* restart, or the next tool call building its own client).
Primary == "c1"

\* The remote in all its variety, over a storage that works.
Next ==
    \/ Construct(Primary)
    \/ EntityLookup(Primary, LookupArgs, {"ok"})
    \/ GetCustomerName(Primary, CustomerIds, {"ok"})
    \/ ReverseLookup(Primary, ReverseArgs, {"ok"})
    \/ Tick

Spec == Init /\ [][Next]_vars

\* The storage in all its conditions, over fewer requests.
NextStorage ==
    \/ Construct(Primary)
    \/ EntityLookup(Primary, StorageLookupArgs, DiskStates)
    \/ GetCustomerName(Primary, StorageCustomerIds, DiskStates)
    \/ ReverseLookup(Primary, StorageReverseArgs, DiskStates)
    \/ Tick

SpecStorage == Init /\ [][NextStorage]_vars

\* The client's query for the open opportunities, over a storage that works.
NextClient ==
    \/ Construct(Primary)
    \/ GetOpenOpportunities(Primary, {"ok"})
    \/ Tick

SpecClient == Init /\ [][NextClient]_vars

\* Two cache instances over the one file (two clients alive at a time, each
\* built by its own tool call), their operations interleaved.
NextTwo ==
    \/ \E i \in Caches : Construct(i)
    \/ \E i \in Caches : EntityLookup(i, StorageLookupArgs, {"ok"})
    \/ \E i \in Caches : ReverseLookup(i, StorageReverseArgs, {"ok"})
    \/ Tick

SpecTwo == Init /\ [][NextTwo]_vars

\* The server process: its start, and the tool calls it serves.
NextServer ==
    \/ Main(Primary)
    \/ CallTool(Primary, {"ok"})
    \/ Tick

SpecServer == Init /\ [][NextServer]_vars

----------------------------------------------------------------------------
(* Properties *)

\* The operation observed in last started from this state of the cache.
Before == [cache_data |-> last.pre, file |-> last.prefile]

\* The table of the observed instance and the file, as they are now.
After == [cache_data |-> cache_data[last.inst], file |-> file]

LastKey == CacheKey(last.args[1], last.args[2].s)

Age(entry, t) == t - fromisoformat(entry.timestamp)

\* C1: two consecutive entity_lookup(t, id) calls with a non-empty id on the
\* same instance, the second made while the entry left by the first is
\* younger than the expiry window, invoke the fetch at most once in total,
\* and the second returns the value of the first from the table, without a
\* fetch and without changing the table.
C1_Idempotence ==
    [][ ( /\ calls' = calls + 1
          /\ last.op = "entity_lookup" /\ last'.op = "entity_lookup"
          /\ last'.inst = last.inst /\ last'.args = last.args
          /\ Truthy(last.args[2])
          /\ Age(cache_data[last.inst][LastKey], now) < CACHE_EXPIRY_HOURS )
        => ( /\ last'.ret = last.ret
             /\ last'.trace = <<>>
             /\ Len(last.trace) + Len(last'.trace) <= 1
             /\ cache_data' = cache_data ) ]_vars

\* A second call has returned, from the table, the fallback string the first
\* call fetched and cached.
C1_Witness ==
    /\ calls >= 2
    /\ last.op = "entity_lookup" /\ Truthy(last.args[2])
    /\ last.trace = <<>>
    /\ LastKey \in DOMAIN negative[last.inst]
    /\ last.ret = negative[last.inst][LastKey].name

\* C2: an entry is valid iff it is strictly younger than the expiry window.
\* entity_lookup on a key whose entry is younger returns the entry's name
\* without a fetch and leaves the table alone; on a key whose entry has
\* reached the window it invokes the fetch, returns what the fetch gave and
\* replaces the entry by one written now.
C2_Expiry ==
    ( /\ last.op = "entity_lookup" /\ Truthy(last.args[2])
      /\ LastKey \in DOMAIN last.pre )
    => LET entry == last.pre[LastKey]
       IN  /\ _is_cache_entry_valid(entry, last.at) <=> Age(entry, last.at) < CACHE_EXPIRY_HOURS
           /\ Age(entry, last.at) < CACHE_EXPIRY_HOURS
                => ( /\ last.ret = entry.name
                     /\ last.trace = <<>>
                     /\ After.cache_data = Before.cache_data )
           /\ Age(entry, last.at) >= CACHE_EXPIRY_HOURS
                => ( /\ Len(last.trace) = 1 /\ last.trace[1].req = "fetch"
                     /\ last.ret = _fetch_from_crm(last.args[1], last.args[2].s,
                                                    last.trace[1].resp)
                     /\ After.cache_data[LastKey] =
                            [name |-> last.ret, timestamp |-> isoformat(last.at)] )

\* An entry was looked up exactly one window after it was written, and was
\* fetched again.
C2_Witness ==
    /\ last.op = "entity_lookup" /\ Truthy(last.args[2])
    /\ LastKey \in DOMAIN last.pre
    /\ Age(last.pre[LastKey], last.at) = CACHE_EXPIRY_HOURS
    /\ Len(last.trace) = 1

\* C3: entity_lookup and get_customer_name with an empty or absent id return
\* "N/A", issue no request and leave the table and the file unchanged.
C3_EmptyId ==
    ( /\ last.op \in {"entity_lookup", "get_customer_name"}
      /\ ~Truthy(last.args[Len(last.args)]) )
    => ( /\ last.ret = PyStr("N/A")
         /\ last.trace = <<>>
         /\ After = Before )

\* entity_lookup was called with an empty id on a table that holds entries.
C3_Witness ==
    /\ last.op = "entity_lookup"
    /\ last.args[2] = PyStr("")
    /\ last.ret = PyStr("N/A")
    /\ DOMAIN last.pre /= {}

\* What entity_lookup(entity_type, entity_id) would do in the current state
\* of the primary instance, per response the remote may give.
LookupNow(entity_type, entity_id) ==
    {entity_lookup(View(Primary, "ok"), entity_type, entity_id, resp) :
        resp \in FetchResponses(entity_type, entity_id)}

\* The fallback string cached under key is still in the table and is what
\* entity_lookup returns now, without a fetch.
ServedFromNegative(key) ==
    LET n == negative[Primary][key]
    IN  /\ key \in DOMAIN cache_data[Primary]
        /\ cache_data[Primary][key].name = n.name
        /\ \A r \in LookupNow(n.type, PyStr(n.id)) :
              r.ret = n.name /\ r.self.trace = <<>>

\* The entity_lookup observed in last fetched, and the fetch failed.
LastFetchFailed ==
    /\ last.op = "entity_lookup"
    /\ last.trace /= <<>>
    /\ FetchFailed(last.trace[1])

\* C4 (as stated): a failed fetch of entity_lookup(t, id) yields the fallback
\* string, which is cached with the timestamp of the call; every
\* entity_lookup(t, id) made later inside the expiry window returns that
\* fallback string without a fetch.
C4_AnyLaterLookup ==
    /\ LastFetchFailed =>
          /\ last.ret = _fetch_from_crm(last.args[1], last.args[2].s, last.trace[1].resp)
          /\ LastKey \in DOMAIN After.cache_data
          /\ After.cache_data[LastKey] = [name |-> last.ret, timestamp |-> isoformat(last.at)]
    /\ \A key \in DOMAIN negative[Primary] :
          now - negative[Primary][key].time < CACHE_EXPIRY_HOURS
             => ServedFromNegative(key)

\* C4 (amended): the same, for every later entity_lookup(t, id) inside the
\* expiry window that is made before a reverse_lookup has written a match
\* under (t, id).
C4_NegativeCaching ==
    /\ LastFetchFailed =>
          /\ last.ret = _fetch_from_crm(last.args[1], last.args[2].s, last.trace[1].resp)
          /\ last.ret.py = "str"
          /\ StartsWithAny(last.ret.s, {"Unknown", "Not found", "Error"})
          /\ LastKey \in DOMAIN After.cache_data
          /\ After.cache_data[LastKey] = [name |-> last.ret, timestamp |-> isoformat(last.at)]
    /\ \A key \in DOMAIN negative[Primary] :
          ( /\ now - negative[Primary][key].time < CACHE_EXPIRY_HOURS
            /\ ~negative[Primary][key].overwritten )
             => ServedFromNegative(key)

\* Hours after a fetch raised, a second entity_lookup of the same key has
\* returned the cached fallback string without a fetch.
C4_Witness ==
    /\ last.op = "entity_lookup" /\ Truthy(last.args[2])
    /\ last.trace = <<>>
    /\ LastKey \in DOMAIN negative[Primary]
    /\ last.ret = negative[Primary][LastKey].name
    /\ last.ret = PyStr("Error (aaaaaaaa...)")
    /\ last.at > negative[Primary][LastKey].time

\* The row of the match that the reverse_lookup observed in last returned.
LastMatch == last.trace[Len(last.trace)].resp.json.value[1]

\* C5: after reverse_lookup(t, name) has returned the id X of a match,
\* entity_lookup(t, X) returns the name delivered with the match, which is
\* the searched name when the match is exact, and fetches nothing, as long
\* as the entry written by the reverse lookup is inside the expiry window.
C5_ReverseThenForward ==
    ( /\ last.op = "reverse_lookup" /\ Truthy(last.ret)
      /\ now - last.at < CACHE_EXPIRY_HOURS )
    => LET config == ReverseConfigs[last.args[1]]
           name == LastMatch[config.name_field]
       IN  /\ last.args[1] \in {"user", "division"}
           /\ LastMatch[config.id_field] = last.ret
           /\ last.trace[Len(last.trace)].filter = "exact" => name = last.args[2]
           /\ \A r \in LookupNow(last.args[1], last.ret) :
                 r.ret = name /\ r.self.trace = <<>>

\* reverse_lookup has returned an id whose key held a cached fallback string.
C5_Witness ==
    /\ last.op = "reverse_lookup" /\ Truthy(last.ret)
    /\ CacheKey(last.args[1], last.ret.s) \in DOMAIN negative[Primary]
    /\ negative[Primary][CacheKey(last.args[1], last.ret.s)].overwritten
    /\ CacheKey(last.args[1], last.ret.s) \in DOMAIN last.pre
    /\ last.pre[CacheKey(last.args[1], last.ret.s)].name = PyStr("Error 500 (aaaaaaaa...)")

\* The cache object as the operation observed in last found it.
LastSelf ==
    [cache_data |-> last.pre, file |-> last.prefile, disk |-> "ok", now |-> last.at,
     trace |-> <<>>, saveFailed |-> FALSE, saves |-> <<>>]

\* The response to the fetch of entity_type among the requests of last.
LastResp(entity_type) ==
    LET hits == {k \in 1..Len(last.trace) : last.trace[k].type = entity_type}
    IN  IF hits = {} THEN NoRequest ELSE last.trace[CHOOSE k \in hits : TRUE].resp

\* The two lookups get_customer_name is made of, on the call observed in last.
LastAccount == entity_lookup(LastSelf, "account", last.args[1], LastResp("account"))

LastContact == entity_lookup(LastAccount.self, "contact", last.args[1], LastResp("contact"))

\* The contact lookup of the call observed in last had an answer: from the
\* table, or from a request to the remote.
ContactAnswered ==
    LET key == CacheKey("contact", last.args[1].s)
        table == LastAccount.self.cache_data
    IN  \/ LastResp("contact") /= NoRequest
        \/ key \in DOMAIN table /\ _is_cache_entry_valid(table[key], last.at)

\* The operation observed in last did what the lookup r did, and no more.
LastIs(r) ==
    /\ last.ret = r.ret
    /\ last.trace = r.self.trace
    /\ After.cache_data = r.self.cache_data

BeginsWithSentinel(v) ==
    v.py = "str" /\ StartsWithAny(v.s, {"Unknown", "Not found", "Error"})

\* C6 (as stated): get_customer_name(id) with a non-empty id returns the
\* result of entity_lookup('account', id), and looks up no contact, if that
\* result does not begin with "Unknown", "Not found" or "Error"; otherwise
\* it returns the result of entity_lookup('contact', id).
C6_PrefixOnly ==
    (last.op = "get_customer_name" /\ Truthy(last.args[1]))
    => IF ~BeginsWithSentinel(LastAccount.ret)
       THEN LastIs(LastAccount)
       ELSE ContactAnswered /\ LastIs(LastContact)

\* C6 (amended): the account result is returned if it is a non-empty name
\* that does not begin with one of the prefixes; an absent or empty account
\* name leads to the contact lookup as a fallback string does.
C6_CustomerFallback ==
    (last.op = "get_customer_name" /\ Truthy(last.args[1]))
    => IF Truthy(LastAccount.ret) /\ ~BeginsWithSentinel(LastAccount.ret)
       THEN LastIs(LastAccount) /\ \A k \in 1..Len(last.trace) : last.trace[k].type /= "contact"
       ELSE ContactAnswered /\ LastIs(LastContact)

\* The account was found with no name, and the contact lookup was made and
\* its result returned.
C6_Witness ==
    /\ last.op = "get_customer_name" /\ Truthy(last.args[1])
    /\ LastAccount.ret = PyNone
    /\ Len(last.trace) = 2
    /\ last.trace[2].type = "contact"
    /\ last.ret = PyStr("Not found (aaaaaaaa...)")

\* The search of trace entry e failed: the request raised, or the remote
\* answered with an error status.
SearchFailed(e) == e.resp.kind = "raise" \/ e.resp.status_code /= HTTP_OK

\* The search of trace entry e delivered a row with an id.
SearchMatched(e) ==
    /\ e.resp.kind = "http" /\ e.resp.status_code = HTTP_OK
    /\ DictGet(e.resp.json, "value", <<>>) /= <<>>

\* The records of the remote whose name is exactly the searched one.
ExactMatches(entity_type, search_name) ==
    LET config == ReverseConfigs[entity_type]
    IN  {r \in CrmRecords : /\ r.endpoint = config.endpoint
                            /\ config.name_field \in DOMAIN r.body
                            /\ r.body[config.name_field] = search_name}

\* The searches of the call observed in last came in order: the exact one,
\* then the partial one if the exact one delivered nothing, and no more.
SearchesInOrder ==
    /\ Len(last.trace) \in {1, 2}
    /\ \A k \in 1..Len(last.trace) : last.trace[k].req = "search"
    /\ last.trace[1].filter = "exact"
    /\ Len(last.trace) = 2 =>
          /\ last.trace[2].filter = "partial"
          /\ ~SearchMatched(last.trace[1])

\* C7: reverse_lookup(t, name) for t in {user, division} searches for the
\* exact name first and for names containing it only if that delivered
\* nothing, at most two searches in all; whenever the remote has a record
\* with exactly that name, the id returned and the pair cached are those of
\* such a record.
C7_ExactBeforePartial ==
    ( /\ last.op = "reverse_lookup"
      /\ last.args[1] \in {"user", "division"} /\ Truthy(last.args[2]) )
    => /\ SearchesInOrder
       /\ ( ExactMatches(last.args[1], last.args[2]) /= {} /\ Truthy(last.ret) )
             => \E r \in ExactMatches(last.args[1], last.args[2]) :
                   /\ last.ret = PyStr(r.id)
                   /\ After.cache_data[CacheKey(last.args[1], r.id)].name = last.args[2]

\* C8: if the exact search of reverse_lookup fails, no partial search is
\* issued, None is returned and the table and the file are unchanged; if the
\* partial search fails, None is returned and the table is unchanged.
C8_AbortOnSearchFailure ==
    (last.op = "reverse_lookup" /\ last.trace /= <<>>)
    => /\ SearchFailed(last.trace[1]) =>
             /\ Len(last.trace) = 1
             /\ last.ret = PyNone
             /\ After = Before
       /\ (Len(last.trace) = 2 /\ SearchFailed(last.trace[2])) =>
             /\ last.ret = PyNone
             /\ After.cache_data = Before.cache_data

\* C9: reverse_lookup(t, name) with t outside {user, division}, or with an
\* empty or absent name, returns None, issues no request and leaves the
\* table and the file unchanged.
C9_ReverseRestriction ==
    ( /\ last.op = "reverse_lookup"
      /\ (last.args[1] \notin {"user", "division"} \/ ~Truthy(last.args[2])) )
    => ( /\ last.ret = PyNone
         /\ RemoteCalls(last.trace) = <<>>
         /\ last.trace = <<>>
         /\ After = Before )

\* reverse_lookup was called for an account by the name the remote has for
\* it, on a table that holds entries.
C9_Witness ==
    /\ last.op = "reverse_lookup"
    /\ last.args = <<"account", PyStr("Acme")>>
    /\ last.ret = PyNone
    /\ DOMAIN last.pre /= {}

\* C10: as long as no save of the instance has failed, a cache instance
\* constructed from the file holds the table of the instance: the same
\* keys, names and timestamps, and with them the same classification of
\* every entry as valid or expired at the current time.
C10_PersistenceRoundTrip ==
    ~saveFailed[Primary]
    => LET fresh == _load_cache(file)
       IN  /\ DOMAIN fresh = DOMAIN cache_data[Primary]
           /\ \A key \in DOMAIN fresh :
                 /\ fresh[key].name = cache_data[Primary][key].name
                 /\ fresh[key].timestamp = cache_data[Primary][key].timestamp
                 /\ _is_cache_entry_valid(fresh[key], now)
                       <=> _is_cache_entry_valid(cache_data[Primary][key], now)

\* Every save has succeeded and the table holds several entries written at
\* different times, one of them without a name, one of them expired.
C10_Witness ==
    /\ ~saveFailed[Primary]
    /\ calls >= 2
    /\ file.kind = "json"
    /\ \E k1, k2 \in DOMAIN cache_data[Primary] :
          /\ cache_data[Primary][k1].name = PyNone
          /\ cache_data[Primary][k1].timestamp /= cache_data[Primary][k2].timestamp
          /\ ~_is_cache_entry_valid(cache_data[Primary][k1], now)
          /\ _is_cache_entry_valid(cache_data[Primary][k2], now)

\* C11: every mutation of the table is in the file before the operation
\* does anything else; when entity_lookup has deleted an expired entry, the
\* file no longer holds the entry at the moment the fetch goes out.
C11_WriteThroughEveryMutation ==
    ( /\ last.op = "entity_lookup" /\ Truthy(last.args[2])
      /\ LastKey \in DOMAIN last.pre
      /\ ~_is_cache_entry_valid(last.pre[LastKey], last.at)
      /\ last.trace /= <<>> )
    => LastKey \notin DOMAIN _load_cache(last.trace[1].file)

\* A save of the operation observed in last failed.
LastSaveFailed == \E k \in 1..Len(last.saves) : ~last.saves[k]

\* The table of the instance holds, under key, the name written by the
\* operation observed in last, and entity_lookup(entity_type, entity_id) is
\* answered from it as long as the entry is inside the expiry window.
KeptInMemory(entity_type, entity_id, name) ==
    LET key == CacheKey(entity_type, entity_id.s)
    IN  /\ key \in DOMAIN cache_data[Primary]
        /\ cache_data[Primary][key] = [name |-> name, timestamp |-> isoformat(last.at)]
        /\ now - last.at < CACHE_EXPIRY_HOURS
              => \A r \in LookupNow(entity_type, entity_id) :
                    r.ret = name /\ r.self.trace = <<>>

\* The file has not taken the write of the operation observed in last: it
\* is as it was, or truncated, and differs from the table unless it held
\* the very same entry under key before.
LeftOutOfSync(key) ==
    LET before == _load_cache(last.prefile)
    IN  /\ file \in {last.prefile, Corrupt}
        /\ (key \notin DOMAIN before \/ before[key] /= cache_data[Primary][key])
              => _load_cache(file) /= cache_data[Primary]

\* C12: a cache constructed while the file is missing or does not parse
\* has an empty table; an entity_lookup or reverse_lookup whose save fails
\* returns what it returns otherwise, and the table of the instance keeps
\* the new entry, so that a following entity_lookup is answered from the
\* table, while the file is left without the entry.
C12_PersistenceFailuresContained ==
    /\ (last.op = "none" /\ file.kind \in {"missing", "corrupt"})
          => cache_data[Primary] = EmptyDict
    /\ (last.op = "entity_lookup" /\ LastSaveFailed)
          => /\ Len(last.trace) = 1
             /\ last.ret = _fetch_from_crm(last.args[1], last.args[2].s, last.trace[1].resp)
             /\ KeptInMemory(last.args[1], last.args[2], last.ret)
             /\ LeftOutOfSync(LastKey)
    /\ (last.op = "reverse_lookup" /\ LastSaveFailed)
          => /\ SearchMatched(last.trace[Len(last.trace)])
             /\ last.ret = LastMatch[ReverseConfigs[last.args[1]].id_field]
             /\ Truthy(last.ret)
             /\ KeptInMemory(last.args[1], last.ret,
                             LastMatch[ReverseConfigs[last.args[1]].name_field])
             /\ LeftOutOfSync(CacheKey(last.args[1], last.ret.s))

\* After an operation whose save failed, an entity_lookup has been answered
\* from the table with a name the file does not hold.
C12_Witness ==
    /\ saveFailed[Primary]
    /\ last.op = "entity_lookup" /\ Truthy(last.args[2])
    /\ last.trace = <<>> /\ last.saves = <<>>
    /\ last.ret = PyStr("Jon")
    /\ LastKey \notin DOMAIN _load_cache(file)

\* The reason a failed fetch states in its fallback string.
FailureReason(e) ==
    CASE e.resp.kind = "none" -> "Unknown type"
      [] e.resp.kind = "raise" -> "Error"
      [] e.resp.status_code = HTTP_NOT_FOUND -> "Not found"
      [] OTHER -> "Error " \o ToString(e.resp.status_code)

\* The first eight characters of an id that is longer than that.
IdPrefix(entity_id) == SubSeq(entity_id, 1, 8)

\* The failed fetches among the requests of the operation observed in last.
LastFailedFetches ==
    IF last.op = "none" THEN {}
    ELSE {k \in 1..Len(last.trace) :
             last.trace[k].req = "fetch" /\ FetchFailed(last.trace[k])}

\* C13 (as stated): whatever way a fetch fails - unsupported type, not
\* found, error status, exception - it gives a string that holds the reason
\* of the failure and the 8-character prefix of the id, and an unsupported
\* type gives it without a request to the remote.
C13_ReasonAndIdPrefix ==
    \A k \in LastFailedFetches :
       LET e == last.trace[k]
           name == _fetch_from_crm(e.type, e.arg, e.resp)
       IN  /\ name.py = "str"
           /\ Contains(name.s, FailureReason(e))
           /\ Contains(name.s, IdPrefix(e.arg))
           /\ ~Contains(name.s, e.arg)
           /\ e.type \notin DOMAIN FetchConfigs => e.resp = NoRequest

\* C13 (amended): the string of a failed request holds the reason and the
\* 8-character prefix of the id, that of an unsupported type holds the
\* reason and the type, not the id, and comes without a request to the
\* remote; entity_lookup returns that string.
C13_FallbackShapes ==
    /\ \A k \in LastFailedFetches :
          LET e == last.trace[k]
              name == _fetch_from_crm(e.type, e.arg, e.resp)
          IN  IF e.type \in DOMAIN FetchConfigs
              THEN /\ e.resp /= NoRequest
                   /\ name = PyStr(FailureReason(e) \o " (" \o IdPrefix(e.arg) \o "...)")
                   /\ ~Contains(name.s, e.arg)
              ELSE /\ e.resp = NoRequest
                   /\ name = PyStr(FailureReason(e) \o " (" \o e.type \o ")")
                   /\ ~Contains(name.s, IdPrefix(e.arg))
    /\ (last.op = "entity_lookup" /\ LastFailedFetches /= {})
          => last.ret = _fetch_from_crm(last.args[1], last.args[2].s, last.trace[1].resp)

\* entity_lookup was called for a type the fetch has no configuration for,
\* and returned the fallback string without a request to the remote.
C13_Witness ==
    /\ last.op = "entity_lookup"
    /\ last.args = <<"lead", PyStr(IdX)>>
    /\ last.ret = PyStr("Unknown type (lead)")
    /\ Len(last.trace) = 1
    /\ RemoteCalls(last.trace) = <<>>

\* The queries for opportunities among the requests of the call observed in
\* last.
LastQueries ==
    IF last.op = "none" THEN {}
    ELSE {k \in 1..Len(last.trace) : last.trace[k].req = "query"}

\* C14: the filter of the query of get_open_opportunities always holds the
\* condition statecode eq 0, and a call with an owner (a division) never
\* sends a query whose filter lacks the condition on the id of the owner
\* (of the division).
C14_FilterNeverDropped ==
    last.op = "get_open_opportunities"
    => \A k \in LastQueries :
          /\ Contains(last.trace[k].arg, "statecode eq 0")
          /\ Truthy(last.args[1]) => Contains(last.trace[k].arg, "_ownerid_value eq '")
          /\ Truthy(last.args[2]) => Contains(last.trace[k].arg, "_actum_divisionid_value eq '")

\* The name the table of the instance holds for (entity_type, entity_id),
\* "N/A" for an id that is absent or empty.
NameInTable(entity_type, entity_id) ==
    IF ~Truthy(entity_id) THEN PyStr("N/A")
    ELSE IF CacheKey(entity_type, entity_id.s) \notin DOMAIN After.cache_data
    THEN PyRaise("KeyError", CacheKey(entity_type, entity_id.s))
    ELSE After.cache_data[CacheKey(entity_type, entity_id.s)].name

\* The customer name by the table of the instance: that of the account if
\* it is a name, else that of the contact.
CustomerInTable(customer_id) ==
    LET account == NameInTable("account", customer_id)
    IN  IF ~Truthy(customer_id) THEN PyStr("N/A")
        ELSE IF Truthy(account) /\ ~BeginsWithSentinel(account) THEN account
        ELSE NameInTable("contact", customer_id)

\* The enriched opportunity out is the raw opportunity raw with the three
\* names added and the raw fields removed.
EnrichedFrom(raw, out) ==
    /\ DOMAIN out \cap {"_ownerid_value", "_customerid_value", "_actum_divisionid_value",
                        "_transactioncurrencyid_value", "@odata.etag", "opportunityid"} = {}
    /\ {"owner_name", "customer_name", "division_name"} \subseteq DOMAIN out
    /\ out["owner_name"] = NameInTable("user", DictGet(raw, "_ownerid_value", PyStr("")))
    /\ out["customer_name"] = CustomerInTable(DictGet(raw, "_customerid_value", PyStr("")))
    /\ out["division_name"] =
          NameInTable("division", DictGet(raw, "_actum_divisionid_value", PyStr("")))
    /\ \A id \in {"_ownerid_value", "_customerid_value", "_actum_divisionid_value"} :
          (id \notin DOMAIN raw \/ ~Truthy(raw[id]))
             => \E name \in {"owner_name", "customer_name", "division_name"} :
                   out[name] = PyStr("N/A")
    /\ "name" \in DOMAIN out /\ out["name"] = raw["name"]

\* C15: when the query is answered with status 200, every opportunity
\* returned by get_open_opportunities carries the owner, customer and
\* division names that entity_lookup and get_customer_name give for its raw
\* ids, "N/A" for an id that is absent or empty, and none of the raw fields.
C15_Enrichment ==
    ( /\ last.op = "get_open_opportunities"
      /\ \E k \in LastQueries : /\ last.trace[k].resp.kind = "http"
                                /\ last.trace[k].resp.status_code = HTTP_OK )
    => LET query == last.trace[CHOOSE k \in LastQueries : TRUE]
           raw == DictGet(query.resp.json, "value", <<>>)
       IN  /\ last.ret.py = "dict"
           /\ "value" \in DOMAIN last.ret.d
           /\ Len(last.ret.d.value) = Len(raw)
           /\ \A k \in 1..Len(raw) : EnrichedFrom(raw[k], last.ret.d.value[k])

\* Two opportunities came back: one with its owner, customer (a contact) and
\* division resolved, one without ids.
C15_Witness ==
    /\ last.op = "get_open_opportunities"
    /\ last.ret.py = "dict" /\ "value" \in DOMAIN last.ret.d
    /\ Len(last.ret.d.value) = 2
    /\ last.ret.d.value[1]["owner_name"] = PyStr("Jon")
    /\ last.ret.d.value[1]["customer_name"] = PyStr("Bob")
    /\ last.ret.d.value[1]["division_name"] = PyStr("Ops")
    /\ last.ret.d.value[2]["owner_name"] = PyStr("N/A")
    /\ last.ret.d.value[2]["customer_name"] = PyStr("N/A")
    /\ last.ret.d.value[2]["division_name"] = PyStr("N/A")

\* The variables that are unset or empty in the environment env.
MissingVars(env) ==
    {v \in {"CLIENT_ID", "CLIENT_SECRET", "TENANT_ID", "RESOURCE"} : ~Truthy(env[v])}

\* C16: when a variable of the configuration is unset or empty,
\* get_crm_config raises a ValueError that names the missing variables, and
\* main returns without starting the server, no exception leaving it.
C16_MissingConfiguration ==
    (last.op = "main" /\ MissingVars(last.args[1]) /= {})
    => LET config == get_crm_config(last.args[1])
       IN  /\ config.py = "raise"
           /\ config.exc = "ValueError"
           /\ \A v \in MissingVars(last.args[1]) : Contains(config.msg, v)
           /\ last.ret = PyStr("returned")

\* C17: call_tool always returns a list of one text result; for a name that
\* is not one of the three tools the text is "Error: Unsupported tool
\* operation '<name>'" and none of the three operations is invoked, whatever
\* the configuration and the CRM are like.
C17_DispatchNeverRaises ==
    last.op = "call_tool"
    => /\ Len(last.ret) = 1
       /\ last.ret[1].type = "text"
       /\ last.args[1] \notin {"get_open_opportunities", "get_users", "get_divisions"}
             => /\ last.ret[1].text =
                      PyStr("Error: Unsupported tool operation '" \o last.args[1] \o "'")
                /\ LastQueries = {}

\* C18: a save rewrites the file wholesale from the table of the instance
\* that saves: after an operation that saved, the file holds the entries of
\* that instance and no others, whatever another instance had written to
\* it before.
C18_WholesaleRewrite ==
    ( /\ last.op /= "none"
      /\ last.saves /= <<>> /\ \A k \in 1..Len(last.saves) : last.saves[k] )
    => /\ _load_cache(file) = cache_data[last.inst]
       /\ \A key \in DOMAIN _load_cache(last.prefile) :
             key \notin DOMAIN cache_data[last.inst] => key \notin DOMAIN _load_cache(file)

\* Both instances started from the same file; an entry that the second
\* instance wrote and saved, and that the file held, is gone from the file
\* after the first instance has saved.
C18_Witness ==
    /\ last.op /= "none" /\ last.inst = "c1" /\ last.saves = <<TRUE>>
    /\ ~saveFailed["c2"]
    /\ \E key \in DOMAIN cache_data["c2"] :
          /\ key \in DOMAIN _load_cache(last.prefile)
          /\ _load_cache(last.prefile)[key] = cache_data["c2"][key]
          /\ key \notin DOMAIN cache_data["c1"]
          /\ key \notin DOMAIN _load_cache(file)

\* C19: when the fetch of the account of a non-empty customer id is
\* answered with status 200 and a name, get_customer_name returns that
\* name and looks up no contact, whatever the name is.
C19_AccountSuccessWins ==
    ( /\ last.op = "get_customer_name" /\ Truthy(last.args[1])
      /\ last.trace /= <<>>
      /\ last.trace[1].type = "account"
      /\ last.trace[1].resp.kind = "http" /\ last.trace[1].resp.status_code = HTTP_OK
      /\ "name" \in DOMAIN last.trace[1].resp.json
      /\ Truthy(last.trace[1].resp.json.name) )
    => /\ last.ret = last.trace[1].resp.json.name
       /\ \A k \in 1..Len(last.trace) : last.trace[k].type /= "contact"

\* The entity_lookup observed in last found a valid entry in the table.
LastWasHit ==
    /\ last.op = "entity_lookup" /\ Truthy(last.args[2])
    /\ LastKey \in DOMAIN last.pre
    /\ Age(last.pre[LastKey], last.at) < CACHE_EXPIRY_HOURS

\* C20: an entity_lookup that finds a valid entry returns its name, fetches
\* nothing, saves nothing and leaves the table and the file as they were,
\* the timestamp of the entry included; so does every further read while
\* the entry is valid, and the entry still expires one expiry window after
\* it was written.
C20_HitIsReadOnly ==
    LastWasHit
    => LET entry == last.pre[LastKey]
           written == fromisoformat(entry.timestamp)
       IN  /\ last.ret = entry.name
           /\ last.trace = <<>>
           /\ last.saves = <<>>
           /\ After = Before
           /\ After.cache_data[LastKey].timestamp = entry.timestamp
           /\ now - written < CACHE_EXPIRY_HOURS
                 => \A r \in LookupNow(last.args[1], last.args[2]) :
                       /\ r.ret = entry.name
                       /\ r.self.saves = <<>>
                       /\ r.self.cache_data = last.pre /\ r.self.file = last.prefile
           /\ _is_cache_entry_valid(After.cache_data[LastKey], written + CACHE_EXPIRY_HOURS - 1)
           /\ ~_is_cache_entry_valid(After.cache_data[LastKey], written + CACHE_EXPIRY_HOURS)

\* An entry written 175 hours ago has been read, and nothing was saved.
C20_Witness ==
    /\ LastWasHit
    /\ Age(last.pre[LastKey], last.at) = CACHE_EXPIRY_HOURS - 1
    /\ last.saves = <<>>
    /\ After = Before

====
